---- MODULE Spec2Model ----
(***************************************************************************)
(* Ninode service agent (ninode-service.py): the self-updating agent core. *)
(*                                                                         *)
(* One asyncio event loop multiplexes the heartbeat loop (ping_task), the  *)
(* scheduled update loop (auto_update_task), the HTTP request handlers     *)
(* (trigger_update, execute_command), the deferred restart tasks           *)
(* (restart_service_delayed) and the lifespan shutdown sequence.           *)
(*                                                                         *)
(* A coroutine runs until its next suspension point (an await that really  *)
(* waits).  `running` names the coroutine that holds the event loop while  *)
(* it is inside a synchronous section that the model splits into steps     *)
(* (the filesystem phase of an update, a blocking subprocess.run); every   *)
(* other coroutine can only be resumed while `running = NoOne`.            *)
(*                                                                         *)
(* Strings whose characters matter (version tags, command names) are       *)
(* sequences of one-character strings.                                     *)
(***************************************************************************)
EXTENDS Integers, Sequences, FiniteSets, TLC

\* ------------------------------------------------------------------ bounds

\* Number of HTTP request slots (requests served during the process lifetime).
MaxRequests ==
    1

\* Number of update attempts (download_and_replace_script calls) the
\* registry's answers may trigger during the process lifetime.
MaxAttempts ==
    2

\* ------------------------------------------------------- program constants

CURRENT_VERSION ==
    <<"0", ".", "1", ".", "7">>

\* subprocess.run(..., timeout=30) in execute_command, in seconds.
COMMAND_TIMEOUT ==
    30

ALLOWED_COMMANDS ==
    { <<"p","s">>, <<"d","f">>, <<"f","r","e","e">>, <<"u","p","t","i","m","e">>,
      <<"w","h","o","a","m","i">>, <<"u","n","a","m","e">>,
      <<"h","o","s","t","n","a","m","e">>, <<"d","a","t","e">>, <<"i","d">>,
      <<"w">>, <<"w","h","o">>, <<"l","a","s","t">>, <<"l","s","c","p","u">>,
      <<"l","s","b","l","k">>, <<"m","o","u","n","t">> }

\* Python's None, as a value comparable with the character sequences.
None ==
    <<"None">>

\* ------------------------------------------------------------ pure helpers

\* str.lstrip(chars): drops every leading character that is in chars.
RECURSIVE lstrip(_, _)
lstrip(s, chars) ==
    IF s # <<>> /\ Head(s) \in chars THEN lstrip(Tail(s), chars) ELSE s

\* str.rstrip(chars).
RECURSIVE rstrip(_, _)
rstrip(s, chars) ==
    IF s # <<>> /\ s[Len(s)] \in chars
    THEN rstrip(SubSeq(s, 1, Len(s) - 1), chars)
    ELSE s

Whitespace ==
    {" ", "\t", "\n"}

\* str.strip(): drops leading and trailing whitespace.
strip(s) ==
    rstrip(lstrip(s, Whitespace), Whitespace)

\* Mutant: `if latest_version is not None` in place of `if latest_version`.
Truthy_not_none(v) ==
    v # None

\* Truthiness of an Optional[str]: None and "" are falsy.
Truthy(v) ==
    v # None /\ v # <<>>

\* --------------------------------------------------------------- the state

\* Updaters: the scheduled loop (auto_update_task) and the request slots.
Scheduled ==
    0

Reqs ==
    1..MaxRequests

Updaters ==
    {Scheduled} \cup Reqs

\* `running` when the event loop is free to resume any coroutine.
NoOne ==
    -1

\* `running` while ping_task holds the event loop.
Heartbeat ==
    -2

\* The files an update replaces and their sibling backups.
SCRIPT == "ninode-service.py"
MCP == "mcp_server.py"
Targets ==
    {SCRIPT, MCP}

\* f"{script_path}.backup", f"{mcp_path}.backup"
Bak(f) ==
    IF f = SCRIPT THEN "ninode-service.py.backup" ELSE "mcp_server.py.backup"

Paths ==
    Targets \cup {Bak(f) : f \in Targets}

\* File contents are named by the release that produced them.
Absent ==
    <<"absent">>

Partial ==
    <<"partial">>

\* Content left in a .backup file by an earlier update cycle.
STALE_VERSION ==
    <<"0", ".", "1", ".", "6">>

\* No update cycle of this process has replaced the file yet.
Never ==
    <<"never">>

NoFile ==
    [c |-> Absent, m |-> "---------"]

VARIABLES
    cfg,            \* Config: enable_auto_update
    disk,           \* path -> [c: content, m: permission bits]
    pc,             \* updater -> position in its coroutine
    running,        \* the coroutine holding the event loop, or NoOne
    life,           \* lifespan: "serving", "cancelled", "ping_joined", "stopped"
    reg,            \* updater -> the registry's answer to its last check
    latest,         \* updater -> latest_version of its current cycle
    out,            \* updater -> how the body of `async with` was left
    att,            \* updater -> record of its current update cycle
    attempts,       \* number of update attempts started so far
    req,            \* request slot -> the request it serves
    resp,           \* request slot -> the response sent
    ex,             \* request slot -> what execute_command did
    restartTasks,   \* restart_service_delayed tasks still sleeping
    restartIssued,  \* systemctl restart ninode has been run
    pingPc,         \* position of ping_task
    pingResult,     \* outcome of the last heartbeat iteration
    pings,          \* heartbeat POSTs sent and not yet answered
    lastPre         \* target -> its content before the last cycle that replaced it

vars ==
    <<cfg, disk, pc, running, life, reg, latest, out, att, attempts, req, resp,
      ex, restartTasks, restartIssued, pingPc, pingResult, pings, lastPre>>

\* ------------------------------------------------------------- filesystem

Exists(d, p) ==
    d[p].c # Absent

\* shutil.copy2(src, dst): content and permission bits.
copy2(d, src, dst) ==
    [d EXCEPT ![dst] = d[src]]

\* What a write to p that raises may leave behind: nothing changed (the open
\* failed) or a truncated file.
Truncated(d, p) ==
    [d EXCEPT ![p] = [c |-> Partial,
                      m |-> IF Exists(d, p) THEN d[p].m ELSE "rw-r--r--"]]

FailedWrite(d, p) ==
    {d, Truncated(d, p)}

\* with open(p, "w") as f: f.write(content)
write_text(d, p, content) ==
    [d EXCEPT ![p] = [c |-> content,
                      m |-> IF Exists(d, p) THEN d[p].m ELSE "rw-r--r--"]]

\* os.chmod(p, 0o755)
chmod755(d, p) ==
    [d EXCEPT ![p].m = "rwxr-xr-x"]

\* Contents of the target files.
Snapshot(d) ==
    [f \in Targets |-> d[f].c]

\* Paths whose file differs between two disk states.
Changed(d, e) ==
    {p \in Paths : d[p] # e[p]}

\* ------------------------------------------------------------------- Init

NoReg ==
    [kind |-> "none", tag |-> <<>>]

NoReq ==
    [route |-> "none", tok |-> "", command |-> <<>>, args |-> <<>>]

NoResp ==
    [code |-> 0, status |-> "none"]

NoEx ==
    [resolved |-> "no", spawned |-> 0, child |-> "none", argv |-> <<>>, dur |-> 0,
     effect |-> "none"]

\* The record of an update attempt that starts on disk d: the content of
\* the targets before it, the paths it wrote, the files it backed up, the
\* targets its replacing steps touched, the artifact GETs it sent and those answered 200, the step that failed, the
\* outcome of the dependency upgrade, whether it scheduled the restart, and
\* what it returned.
FreshAtt(d) ==
    [pre |-> Snapshot(d), wrote |-> {}, bk |-> {}, repl |-> {}, gets |-> 0,
     ok |-> 0, fail |-> "none", pip |-> "none", sched |-> FALSE, res |-> "none"]

\* The record of a coroutine that is in no update cycle.
NoAtt ==
    [FreshAtt([p \in Paths |-> NoFile]) EXCEPT !.pre = [f \in Targets |-> Absent]]

\* Mutant: the loop starts whatever the configuration says.
auto_update_task_entry_ignores_config(config) ==
    "sleep"

\* auto_update_task up to its first await: returns when auto-update is off.
auto_update_task_entry(config) ==
    IF ~config.enable_auto_update THEN "returned" ELSE "sleep"

\* The installations the agent may start on: a fresh one, one that an
\* earlier update cycle left its .backup files in, one from before the MCP
\* server was shipped (with the backup of that update), and one whose files
\* are private to the service user.
File(content, mode) ==
    [c |-> content, m |-> mode]

Installation(script, mcp, bakScript, bakMcp) ==
    [p \in Paths |->
       CASE p = SCRIPT -> script
         [] p = MCP -> mcp
         [] p = Bak(SCRIPT) -> bakScript
         [] OTHER -> bakMcp]

InitDisks ==
    { Installation(File(CURRENT_VERSION, "rwxr-xr-x"), File(CURRENT_VERSION, "rwxr-xr-x"),
                   NoFile, NoFile),
      Installation(File(CURRENT_VERSION, "rwxr-xr-x"), File(CURRENT_VERSION, "rwxr-xr-x"),
                   File(STALE_VERSION, "rwxr-xr-x"), File(STALE_VERSION, "rwxr-xr-x")),
      Installation(File(CURRENT_VERSION, "rwxr-xr-x"), NoFile,
                   File(STALE_VERSION, "rwxr-xr-x"), NoFile),
      Installation(File(CURRENT_VERSION, "rwx------"), File(CURRENT_VERSION, "rwx------"),
                   NoFile, NoFile) }

Init ==
    /\ cfg \in [enable_auto_update : BOOLEAN]
    /\ disk \in InitDisks
    /\ pc = [c \in Updaters |->
               IF c = Scheduled THEN auto_update_task_entry(cfg) ELSE "idle"]
    /\ running = NoOne
    /\ life = "serving"
    /\ reg = [c \in Updaters |-> NoReg]
    /\ latest = [c \in Updaters |-> None]
    /\ out = [c \in Updaters |-> "none"]
    /\ att = [c \in Updaters |-> NoAtt]
    /\ attempts = 0
    /\ req = [r \in Reqs |-> NoReq]
    /\ resp = [r \in Reqs |-> NoResp]
    /\ ex = [r \in Reqs |-> NoEx]
    /\ restartTasks = 0
    /\ restartIssued = FALSE
    /\ pingPc = "sleep"
    /\ pingResult = "none"
    /\ pings = 0
    /\ lastPre = [f \in Targets |-> Never]

\* ------------------------------------------------- the update orchestrator

Alive ==
    life # "stopped"

\* A suspended coroutine can be resumed: the event loop is free.  The two
\* background tasks are resumed normally only while not cancelled.
CanResume(c) ==
    /\ Alive
    /\ running = NoOne
    /\ (c = Scheduled => life = "serving")

\* Answers of the release registry to GET .../releases/latest.
RegistryTags ==
    { <<"v","0",".","1",".","7">>, <<"0",".","1",".","7">>,
      <<"v","v","0",".","1",".","7">>, <<"v","0",".","1",".","8">>, <<"v">> }

RegistryAnswers ==
    [kind : {"ok"}, tag : RegistryTags]
      \cup [kind : {"status", "error", "malformed"}, tag : {<<>>}]

\* Mutant: the tag is compared before the leading "v" is stripped.
check_for_updates_raw_tag(answer) ==
    IF answer.kind = "ok"
    THEN IF answer.tag # CURRENT_VERSION THEN lstrip(answer.tag, {"v"}) ELSE None
    ELSE None

\* Mutant: a failed check falls back to a version it assumes to be out.
check_for_updates_failure_yields_version(answer) ==
    IF answer.kind = "ok"
    THEN LET latest_version == lstrip(answer.tag, {"v"})
         IN  IF latest_version # CURRENT_VERSION THEN latest_version ELSE None
    ELSE <<"0", ".", "1", ".", "8">>

\* check_for_updates: the latest version when it differs from the running
\* one, None otherwise and on every failure.
check_for_updates(answer) ==
    IF answer.kind = "ok"
    THEN LET latest_version == lstrip(answer.tag, {"v"})
         IN  IF latest_version # CURRENT_VERSION THEN latest_version ELSE None
    ELSE None

\* Outcomes of one artifact GET: 200, another status, or an exception
\* (timeout, transport error).
HttpOutcomes ==
    {"200", "status", "error"}

\* Mutant: trigger_update does not look at what the attempt returned.
trigger_update_response_ignores_result(res) ==
    [code |-> 200, status |-> "updating"]

\* The JSON body trigger_update answers with, by the attempt's result.
trigger_update_response(res) ==
    IF res = "true"
    THEN [code |-> 200, status |-> "updating"]
    ELSE [code |-> 500, status |-> "error"]

\* The attempt record after a filesystem operation touched `touched`.
Touch(a, touched) ==
    [a EXCEPT !.wrote = @ \cup touched]

\* download_and_replace_script hands `res` to its caller: auto_update_task
\* drops it, trigger_update builds the response.  The cycle is at its end.
Finish(c, res, d, touched) ==
    /\ disk' = d
    /\ att' = [att EXCEPT ![c] = [Touch(@, touched) EXCEPT !.res = res]]
    /\ running' = c
    /\ pc' = [pc EXCEPT ![c] = "end"]
    /\ resp' = IF c = Scheduled THEN resp
               ELSE [resp EXCEPT ![c] = trigger_update_response(res)]
    /\ out' = [out EXCEPT ![c] = "none"]

\* The body of `async with` is left: by return True/False or by an exception.
\* The client is closed (an await) before control reaches return or except.
Leave(c, how, d, a) ==
    /\ disk' = d
    /\ att' = [att EXCEPT ![c] = a]
    /\ out' = [out EXCEPT ![c] = how]
    /\ pc' = [pc EXCEPT ![c] = "aexit"]
    /\ running' = NoOne

\* The body is left by an exception raised in step `cause`.
Raise(c, cause, d) ==
    Leave(c, "exc", d, [Touch(att[c], Changed(disk, d)) EXCEPT !.fail = cause])

\* Mutant: every step of the filesystem phase is awaited.
Go_yielding(c, next, d, a) ==
    /\ disk' = d
    /\ att' = [att EXCEPT ![c] = a]
    /\ pc' = [pc EXCEPT ![c] = next]
    /\ running' = NoOne
    /\ UNCHANGED out

\* One step of the synchronous filesystem phase succeeded.
Go(c, next, d, a) ==
    /\ disk' = d
    /\ att' = [att EXCEPT ![c] = a]
    /\ pc' = [pc EXCEPT ![c] = next]
    /\ UNCHANGED <<out, running>>

\* Mutant: a failed attempt ends the loop.
auto_update_task_next_unguarded(outcome) ==
    IF outcome \in {"false", "raised"} THEN "crashed" ELSE "sleep"

\* auto_update_task: where the loop goes after a cycle, whatever its outcome
\* (`except Exception` swallows what the cycle raises).
auto_update_task_next(outcome) ==
    "sleep"

\* auto_update_task: asyncio.sleep(interval) is over; the check is sent.
SleepWake ==
    /\ CanResume(Scheduled)
    /\ pc[Scheduled] = "sleep"
    /\ pc' = [pc EXCEPT ![Scheduled] = "check"]
    /\ UNCHANGED <<cfg, disk, running, life, reg, latest, out, att, attempts,
                   req, resp, ex, restartTasks, restartIssued, pingPc, pingResult, pings, lastPre>>

\* The registry answered (or failed): check_for_updates returns, and its
\* caller either starts download_and_replace_script (first GET sent) or
\* ends the cycle: the loop goes back to sleep, the request is answered
\* up_to_date.
CheckReturn(c) ==
    /\ CanResume(c)
    /\ pc[c] = "check"
    /\ \E answer \in RegistryAnswers :
         LET lv == check_for_updates(answer) IN
         /\ reg' = [reg EXCEPT ![c] = answer]
         /\ latest' = [latest EXCEPT ![c] = lv]
         /\ IF Truthy(lv)
            THEN /\ attempts < MaxAttempts
                 /\ attempts' = attempts + 1
                 /\ pc' = [pc EXCEPT ![c] = "dl1"]
                 /\ att' = [att EXCEPT ![c] = [FreshAtt(disk) EXCEPT !.gets = 1]]
                 /\ UNCHANGED <<resp, running>>
            ELSE /\ attempts' = attempts
                 /\ pc' = [pc EXCEPT ![c] = "end"]
                 /\ running' = c
                 /\ att' = att
                 /\ resp' = IF c = Scheduled THEN resp
                            ELSE [resp EXCEPT ![c] =
                                    [code |-> 200, status |-> "up_to_date"]]
    /\ UNCHANGED <<cfg, disk, life, out, req, ex,
                   restartTasks, restartIssued, pingPc, pingResult, pings, lastPre>>

\* The cycle is over: auto_update_task sleeps for the next interval, the
\* request handler has returned its response.  Its locals are gone.
EndCycle(c) ==
    /\ Alive
    /\ running = c
    /\ pc[c] = "end"
    /\ pc' = [pc EXCEPT ![c] = IF c = Scheduled
                               THEN auto_update_task_next(att[c].res)
                               ELSE "done"]
    /\ running' = NoOne
    /\ reg' = [reg EXCEPT ![c] = NoReg]
    /\ latest' = [latest EXCEPT ![c] = None]
    /\ att' = [att EXCEPT ![c] = NoAtt]
    /\ IF c = Scheduled
       THEN UNCHANGED <<req, ex>>
       ELSE /\ req' = [req EXCEPT ![c] = NoReq]
            /\ ex' = [ex EXCEPT ![c] = NoEx]
    /\ UNCHANGED <<cfg, disk, life, out, attempts, resp,
                   restartTasks, restartIssued, pingPc, pingResult, pings, lastPre>>

\* Mutant: each file is backed up just before it is written.
FsOrder_per_file ==
    <<"backup_script", "write_script", "backup_mcp", "write_mcp",
      "chmod_script", "chmod_mcp", "pip", "schedule">>

\* The synchronous filesystem phase, lines 283-331, in program order.
FsOrder ==
    <<"backup_script", "backup_mcp", "write_script", "write_mcp",
      "chmod_script", "chmod_mcp", "pip", "schedule">>

\* The step that follows `step` in program order.
After(step) ==
    FsOrder[(CHOOSE i \in 1..Len(FsOrder) : FsOrder[i] = step) + 1]

\* GET ninode-service.py returned.
Download1Return(c) ==
    /\ CanResume(c)
    /\ pc[c] = "dl1"
    /\ \E o \in HttpOutcomes :
         CASE o = "200" ->
                /\ pc' = [pc EXCEPT ![c] = "dl2"]
                /\ att' = [att EXCEPT ![c].ok = 1, ![c].gets = 2]
                /\ UNCHANGED <<disk, out, running>>
           [] o = "status" ->
                Leave(c, "false", disk, [att[c] EXCEPT !.fail = "status"])
           [] OTHER -> Raise(c, "error", disk)
    /\ UNCHANGED <<cfg, life, reg, latest, attempts, req, resp, ex,
                   restartTasks, restartIssued, pingPc, pingResult, pings, lastPre>>

\* GET mcp_server.py returned; on 200 the filesystem phase starts, and runs
\* without any await up to `return True`.
Download2Return(c) ==
    /\ CanResume(c)
    /\ pc[c] = "dl2"
    /\ \E o \in HttpOutcomes :
         CASE o = "200" ->
                /\ pc' = [pc EXCEPT ![c] = FsOrder[1]]
                /\ att' = [att EXCEPT ![c].ok = 2]
                /\ running' = c
                /\ UNCHANGED <<disk, out>>
           [] o = "status" ->
                Leave(c, "false", disk, [att[c] EXCEPT !.fail = "status"])
           [] OTHER -> Raise(c, "error", disk)
    /\ UNCHANGED <<cfg, life, reg, latest, attempts, req, resp, ex,
                   restartTasks, restartIssued, pingPc, pingResult, pings, lastPre>>

BackupStep(f) ==
    IF f = SCRIPT THEN "backup_script" ELSE "backup_mcp"

WriteStep(f) ==
    IF f = SCRIPT THEN "write_script" ELSE "write_mcp"

ChmodStep(f) ==
    IF f = SCRIPT THEN "chmod_script" ELSE "chmod_mcp"

\* The text downloaded for a release: named by the release.
Artifact(version) ==
    version

\* Whether the backup step copies f: the script always, the MCP server only
\* if it exists.
BackupWanted(d, f) ==
    f = SCRIPT \/ Exists(d, f)

\* shutil.copy2(path, backup_path)
Backup(c, f) ==
    /\ Alive
    /\ running = c
    /\ pc[c] = BackupStep(f)
    /\ IF ~BackupWanted(disk, f)
       THEN Go(c, After(pc[c]), disk, att[c])
       ELSE \/ /\ Exists(disk, f)
               /\ Go(c, After(pc[c]), copy2(disk, f, Bak(f)),
                     [Touch(att[c], {Bak(f)}) EXCEPT !.bk = @ \cup {f}])
            \/ \E d \in FailedWrite(disk, Bak(f)) : Raise(c, "backup", d)
    /\ UNCHANGED <<cfg, life, reg, latest, attempts, req, resp, ex,
                   restartTasks, restartIssued, pingPc, pingResult, pings, lastPre>>

\* with open(path, "w") as f: f.write(content)
Write(c, f) ==
    /\ Alive
    /\ running = c
    /\ pc[c] = WriteStep(f)
    /\ \/ /\ Go(c, After(pc[c]), write_text(disk, f, Artifact(latest[c])),
                [Touch(att[c], {f}) EXCEPT !.repl = @ \cup {f}])
          /\ lastPre' = [lastPre EXCEPT ![f] = disk[f].c]
       \/ \E d \in FailedWrite(disk, f) :
            /\ Leave(c, "exc", d,
                     [Touch(att[c], Changed(disk, d))
                        EXCEPT !.fail = "write", !.repl = @ \cup Changed(disk, d)])
            /\ lastPre' = lastPre
    /\ UNCHANGED <<cfg, life, reg, latest, attempts, req, resp, ex,
                   restartTasks, restartIssued, pingPc, pingResult, pings>>

\* os.chmod(path, 0o755)
Chmod(c, f) ==
    /\ Alive
    /\ running = c
    /\ pc[c] = ChmodStep(f)
    /\ \/ Go(c, After(pc[c]), chmod755(disk, f),
             [Touch(att[c], {f}) EXCEPT !.repl = @ \cup {f}])
       \/ Raise(c, "chmod", disk)
    /\ UNCHANGED <<cfg, life, reg, latest, attempts, req, resp, ex,
                   restartTasks, restartIssued, pingPc, pingResult, pings, lastPre>>

\* venv pip: absent, upgraded, exited non-zero (CalledProcessError, caught),
\* or could not be run at all (OSError, not caught here).
PipOutcomes ==
    {"absent", "ok", "nonzero", "oserror"}

\* Mutant: a non-zero exit of pip is not caught either.
PipRaises_any_failure(o) ==
    o \in {"nonzero", "oserror"}

\* Whether the outcome of the dependency upgrade leaves the try block.
PipRaises(o) ==
    o = "oserror"

PipUpgrade(c) ==
    /\ Alive
    /\ running = c
    /\ pc[c] = "pip"
    /\ \E o \in PipOutcomes :
         IF PipRaises(o)
         THEN Leave(c, "exc", disk, [att[c] EXCEPT !.pip = o, !.fail = "pip"])
         ELSE Go(c, "schedule", disk, [att[c] EXCEPT !.pip = o])
    /\ UNCHANGED <<cfg, life, reg, latest, attempts, req, resp, ex,
                   restartTasks, restartIssued, pingPc, pingResult, pings, lastPre>>

\* asyncio.create_task(restart_service_delayed()); return True
ScheduleRestart(c) ==
    /\ Alive
    /\ running = c
    /\ pc[c] = "schedule"
    /\ restartTasks' = restartTasks + 1
    /\ Leave(c, "true", disk, [att[c] EXCEPT !.sched = TRUE])
    /\ UNCHANGED <<cfg, life, reg, latest, attempts, req, resp, ex,
                   restartIssued, pingPc, pingResult, pings, lastPre>>

\* The client is closed.  return True / return False reach the caller; an
\* exception reaches `except Exception`, which restores from the backups.
AExitReturn(c) ==
    /\ CanResume(c)
    /\ pc[c] = "aexit"
    /\ IF out[c] = "exc"
       THEN /\ pc' = [pc EXCEPT ![c] = "rb_script"]
            /\ running' = c
            /\ UNCHANGED <<disk, att, out, resp>>
       ELSE Finish(c, out[c], disk, {})
    /\ UNCHANGED <<cfg, life, reg, latest, attempts, req, ex,
                   restartTasks, restartIssued, pingPc, pingResult, pings, lastPre>>

\* Whether rollback restores f: a file exists at its backup path.
RestoreWanted(c, d, f) ==
    Exists(d, Bak(f))

\* if os.path.exists(backup_script_path): shutil.copy2(backup, script_path)
RollbackScript(c) ==
    /\ Alive
    /\ running = c
    /\ pc[c] = "rb_script"
    /\ IF ~RestoreWanted(c, disk, SCRIPT)
       THEN /\ pc' = [pc EXCEPT ![c] = "rb_mcp"]
            /\ UNCHANGED <<disk, att, out, running, resp>>
       ELSE \/ /\ disk' = copy2(disk, Bak(SCRIPT), SCRIPT)
               /\ att' = [att EXCEPT ![c] = Touch(@, {SCRIPT})]
               /\ pc' = [pc EXCEPT ![c] = "rb_mcp"]
               /\ UNCHANGED <<out, running, resp>>
            \/ \E d \in FailedWrite(disk, SCRIPT) :
                 Finish(c, "raised", d, Changed(disk, d))
    /\ UNCHANGED <<cfg, life, reg, latest, attempts, req, ex,
                   restartTasks, restartIssued, pingPc, pingResult, pings, lastPre>>

\* if os.path.exists(backup_mcp_path): shutil.copy2(backup, mcp_path);
\* return False
RollbackMcp(c) ==
    /\ Alive
    /\ running = c
    /\ pc[c] = "rb_mcp"
    /\ IF ~RestoreWanted(c, disk, MCP)
       THEN Finish(c, "false", disk, {})
       ELSE \/ Finish(c, "false", copy2(disk, Bak(MCP), MCP), {MCP})
            \/ \E d \in FailedWrite(disk, MCP) :
                 Finish(c, "raised", d, Changed(disk, d))
    /\ UNCHANGED <<cfg, life, reg, latest, attempts, req, ex,
                   restartTasks, restartIssued, pingPc, pingResult, pings, lastPre>>

\* Attempts that have scheduled the restart and are still closing their
\* download client, one zero-delay yield away from `return True`.
Returning ==
    {c \in Updaters : pc[c] = "aexit" /\ out[c] = "true"}

\* Mutant: restart_service_delayed does not sleep before it restarts.
GraceElapsed_no_delay ==
    TRUE

\* await asyncio.sleep(2) in restart_service_delayed: the timer of a restart
\* task is not due while the attempt that created it has not yet been
\* resumed from the yield it took in the same pass of the event loop.
GraceElapsed ==
    restartTasks > Cardinality(Returning)

\* restart_service_delayed: the 2 s sleep is over, systemctl restart runs.
RestartFire ==
    /\ Alive
    /\ running = NoOne
    /\ restartTasks > 0
    /\ GraceElapsed
    /\ restartTasks' = restartTasks - 1
    /\ restartIssued' = TRUE
    /\ UNCHANGED <<cfg, disk, pc, running, life, reg, latest, out, att,
                   attempts, req, resp, ex, pingPc, pingResult, pings, lastPre>>

\* ------------------------------------------------------------ the requests

API_KEY == "key"

Tokens ==
    {"key", "wrong"}

\* Mutant: every bearer token is accepted.
verify_token_any(tok) ==
    TRUE

\* verify_token: the bearer token must equal config.api_key.
verify_token(tok) ==
    tok = API_KEY

Unauthorized ==
    [code |-> 401, status |-> "error"]

\* POST /update: trigger_update up to its first await (the registry GET).
ReceiveUpdate(r) ==
    /\ life = "serving"
    /\ running = NoOne
    /\ pc[r] = "idle"
    /\ \E tok \in Tokens :
         /\ req' = [req EXCEPT ![r] = [NoReq EXCEPT !.route = "update", !.tok = tok]]
         /\ IF verify_token(tok)
            THEN /\ pc' = [pc EXCEPT ![r] = "check"]
                 /\ resp' = resp
                 /\ running' = running
            ELSE /\ pc' = [pc EXCEPT ![r] = "end"]
                 /\ resp' = [resp EXCEPT ![r] = Unauthorized]
                 /\ running' = r
    /\ UNCHANGED <<cfg, disk, life, reg, latest, out, att, attempts, ex,
                   restartTasks, restartIssued, pingPc, pingResult, pings, lastPre>>

\* Tokens a GET /health may carry: the route has no dependency on
\* verify_token, so also none at all.
HealthTokens ==
    Tokens \cup {""}

\* GET /health: health_check answers without looking at any token.
ReceiveHealth(r) ==
    /\ life = "serving"
    /\ running = NoOne
    /\ pc[r] = "idle"
    /\ \E tok \in HealthTokens :
         req' = [req EXCEPT ![r] = [NoReq EXCEPT !.route = "health", !.tok = tok]]
    /\ resp' = [resp EXCEPT ![r] = [code |-> 200, status |-> "healthy"]]
    /\ pc' = [pc EXCEPT ![r] = "end"]
    /\ running' = r
    /\ UNCHANGED <<cfg, disk, life, reg, latest, out, att, attempts, ex,
                   restartTasks, restartIssued, pingPc, pingResult, pings, lastPre>>

\* GET /status: verify_token, then get_ping_data, which does not suspend;
\* what it raises becomes a 500.
ReceiveStatus(r) ==
    /\ life = "serving"
    /\ running = NoOne
    /\ pc[r] = "idle"
    /\ \E tok \in Tokens, collected \in BOOLEAN :
         /\ req' = [req EXCEPT ![r] = [NoReq EXCEPT !.route = "status", !.tok = tok]]
         /\ resp' = [resp EXCEPT ![r] =
                       IF ~verify_token(tok) THEN Unauthorized
                       ELSE IF collected THEN [code |-> 200, status |-> "status"]
                       ELSE [code |-> 500, status |-> "error"]]
    /\ pc' = [pc EXCEPT ![r] = "end"]
    /\ running' = r
    /\ UNCHANGED <<cfg, disk, life, reg, latest, out, att, attempts, ex,
                   restartTasks, restartIssued, pingPc, pingResult, pings, lastPre>>

\* GET /metrics: verify_token, then free, df and uptime are run one after
\* the other without an await; any exception becomes a 500.
ReceiveMetrics(r) ==
    /\ life = "serving"
    /\ running = NoOne
    /\ pc[r] = "idle"
    /\ \E tok \in Tokens, collected \in BOOLEAN :
         /\ req' = [req EXCEPT ![r] = [NoReq EXCEPT !.route = "metrics", !.tok = tok]]
         /\ resp' = [resp EXCEPT ![r] =
                       IF ~verify_token(tok) THEN Unauthorized
                       ELSE IF collected THEN [code |-> 200, status |-> "metrics"]
                       ELSE [code |-> 500, status |-> "error"]]
    /\ pc' = [pc EXCEPT ![r] = "end"]
    /\ running' = r
    /\ UNCHANGED <<cfg, disk, life, reg, latest, out, att, attempts, ex,
                   restartTasks, restartIssued, pingPc, pingResult, pings, lastPre>>

\* ---------------------------------------------------- the command gateway

\* Command strings a caller may send.
CommandInputs ==
    { <<"p","s">>, <<" ","p","s","\n">>, <<"P","S">>, <<"r","m">>,
      <<"p"," ","s">>, <<>>, <<"h","o","s","t","n","a","m","e">> }

\* Argument vectors a caller may send: request.args is any list of strings.
ArgInputs ==
    { <<>>, << <<"-","a">>, <<"-","x">> >>, << <<"v","p","s","2">> >> }

\* What the child does to the host when it runs to its end.  The handler
\* hands request.args to the program as they are; run with the privileges
\* of a service that restarts itself through systemctl, hostname(1) with
\* one operand that is no option sets the host name.
HostEffect(argv) ==
    IF /\ argv[1] = <<"h","o","s","t","n","a","m","e">>
       /\ Len(argv) = 2
       /\ argv[2] # <<>>
       /\ argv[2][1] # "-"
    THEN "sethostname"
    ELSE "none"

\* str.lower() on the letters the command inputs use.
Lower(s) ==
    [i \in 1..Len(s) |->
       CASE s[i] = "P" -> "p"
         [] s[i] = "S" -> "s"
         [] OTHER -> s[i]]

\* Mutant: the allowlist is matched without regard to case.
Allowed_any_case(command) ==
    Lower(command) \in ALLOWED_COMMANDS

\* command not in ALLOWED_COMMANDS -> 403
Allowed(command) ==
    command \in ALLOWED_COMMANDS

\* request.command.strip()
CommandName(raw) ==
    strip(raw)

\* What shutil.which(command) found on the executable search path.
Which(found) ==
    IF found THEN "found" ELSE "missing"

\* Mutant: the result of shutil.which is not looked at.
Resolvable_unchecked(found) ==
    TRUE

\* if not shutil.which(command): 404
Resolvable(found) ==
    found

\* Mutant: the arguments are handed over in reverse order.
cmd_args_reversed(command, args) ==
    <<command>> \o [i \in 1..Len(args) |-> args[Len(args) + 1 - i]]

\* cmd_args = [command] + request.args
cmd_args(command, args) ==
    <<command>> \o args

\* Seconds a child may take to exit.
ChildDurations ==
    {29, 31}

\* Mutant: subprocess.run is called without a timeout.
TimedOut_never(d) ==
    FALSE

\* subprocess.run(timeout=30) raises TimeoutExpired when the child has not
\* exited in time.
TimedOut(d) ==
    d > COMMAND_TIMEOUT

\* POST /execute: verify_token, the allowlist check, shutil.which, and the
\* spawn of the child.  subprocess.run blocks: the handler keeps the event
\* loop while the child runs.
ReceiveExecute(r) ==
    /\ life = "serving"
    /\ running = NoOne
    /\ pc[r] = "idle"
    /\ \E tok \in Tokens, raw \in CommandInputs, args \in ArgInputs :
         LET command == CommandName(raw) IN
         /\ req' = [req EXCEPT ![r] =
                      [route |-> "execute", tok |-> tok, command |-> raw, args |-> args]]
         /\ IF ~verify_token(tok)
            THEN /\ resp' = [resp EXCEPT ![r] = Unauthorized]
                 /\ pc' = [pc EXCEPT ![r] = "end"]
                 /\ ex' = ex
            ELSE IF ~Allowed(command)
            THEN /\ resp' = [resp EXCEPT ![r] = [code |-> 403, status |-> "error"]]
                 /\ pc' = [pc EXCEPT ![r] = "end"]
                 /\ ex' = ex
            ELSE \E found \in BOOLEAN :
                   IF ~Resolvable(found)
                   THEN /\ resp' = [resp EXCEPT ![r] = [code |-> 404, status |-> "error"]]
                        /\ pc' = [pc EXCEPT ![r] = "end"]
                        /\ ex' = [ex EXCEPT ![r].resolved = Which(found)]
                   ELSE /\ resp' = resp
                        /\ pc' = [pc EXCEPT ![r] = "child"]
                        /\ ex' = [ex EXCEPT ![r] =
                                    [resolved |-> Which(found), spawned |-> 1,
                                     child |-> "running",
                                     argv |-> cmd_args(command, args),
                                     dur |-> 0, effect |-> "none"]]
    /\ running' = r
    /\ UNCHANGED <<cfg, disk, life, reg, latest, out, att, attempts,
                   restartTasks, restartIssued, pingPc, pingResult, pings, lastPre>>

\* subprocess.run returns or raises: the child exited in time (CommandResponse),
\* ran into the timeout (killed, 408), or run() failed otherwise (500).
ChildDone(r) ==
    /\ Alive
    /\ running = r
    /\ pc[r] = "child"
    /\ \E d \in ChildDurations, broken \in BOOLEAN :
         IF TimedOut(d)
         THEN /\ ex' = [ex EXCEPT ![r].child = "killed", ![r].dur = d]
              /\ resp' = [resp EXCEPT ![r] = [code |-> 408, status |-> "error"]]
         ELSE /\ ex' = [ex EXCEPT ![r].child = "exited", ![r].dur = d,
                                  ![r].effect = HostEffect(ex[r].argv)]
              /\ resp' = [resp EXCEPT ![r] =
                            IF broken THEN [code |-> 500, status |-> "error"]
                            ELSE [code |-> 200, status |-> "result"]]
    /\ pc' = [pc EXCEPT ![r] = "end"]
    /\ UNCHANGED <<cfg, disk, running, life, reg, latest, out, att, attempts, req,
                   restartTasks, restartIssued, pingPc, pingResult, pings, lastPre>>

\* ------------------------------------------------------------ the heartbeat

\* Outcomes of the POST to {server_url}/api/v1/service/ping.
PingOutcomes ==
    {"200", "status", "timeout", "request_error", "other_error"}

\* ping_server, from the POST on: True exactly on status 200.
ping_server(o) ==
    IF o = "200" THEN "true" ELSE "false"

\* Mutant: an exception raised while the snapshot is collected leaves the loop.
ping_task_next_unguarded(outcome) ==
    IF outcome = "raised" THEN "crashed" ELSE "sleep"

\* Mutant: a failed report is sent again at once.
ping_task_next_retry(outcome) ==
    IF outcome = "false" THEN "post" ELSE "sleep"

\* ping_task: where the loop goes after an iteration, whatever its outcome
\* (`except Exception` swallows what ping_server raises).
ping_task_next(outcome) ==
    "sleep"

\* Mutant: the report is started as a task of its own and not awaited.
ping_task_after_send_detached ==
    "sleep"

\* success = await ping_server(config): while the POST is in flight the loop
\* is suspended in it.
ping_task_after_send ==
    "post"

\* ping_task: asyncio.sleep(PING_INTERVAL) is over; get_ping_data runs (it
\* does not suspend) and either raises, past ping_server, or the POST is sent.
PingWake ==
    /\ life = "serving"
    /\ running = NoOne
    /\ pingPc = "sleep"
    /\ \E collected \in BOOLEAN :
         IF collected
         THEN /\ pingPc' = ping_task_after_send
              /\ pings' = pings + 1
              /\ UNCHANGED <<pingResult, running>>
         ELSE /\ pingPc' = "end"
              /\ pingResult' = "raised"
              /\ running' = Heartbeat
              /\ pings' = pings
    /\ UNCHANGED <<cfg, disk, pc, life, reg, latest, out, att,
                   attempts, req, resp, ex, restartTasks, restartIssued, lastPre>>

\* The POST returned or raised: ping_server returns True or False.
PingReturn ==
    /\ life = "serving"
    /\ running = NoOne
    /\ pingPc = "post"
    /\ \E o \in PingOutcomes :
         pingResult' = ping_server(o)
    /\ pingPc' = "end"
    /\ pings' = pings - 1
    /\ running' = Heartbeat
    /\ UNCHANGED <<cfg, disk, pc, life, reg, latest, out, att,
                   attempts, req, resp, ex, restartTasks, restartIssued, lastPre>>

\* The iteration is over: the loop goes on.
PingEnd ==
    /\ Alive
    /\ running = Heartbeat
    /\ pingPc = "end"
    /\ pingPc' = ping_task_next(pingResult)
    /\ pingResult' = "none"
    /\ running' = NoOne
    /\ pings' = pings
    /\ UNCHANGED <<cfg, disk, pc, life, reg, latest, out, att,
                   attempts, req, resp, ex, restartTasks, restartIssued, lastPre>>

\* ---------------------------------------------------------------- shutdown

\* Positions at which a task is suspended in an await.
Suspended ==
    {"sleep", "check", "dl1", "dl2", "aexit", "post"}

\* lifespan after yield: ping_bg_task.cancel(); update_task.cancel(); then
\* await ping_bg_task.  The server runs the lifespan's shutdown once the
\* requests in flight have been answered.
Shutdown ==
    /\ life = "serving"
    /\ running = NoOne
    /\ \A r \in Reqs : pc[r] \in {"idle", "done"}
    /\ life' = "cancelled"
    /\ UNCHANGED <<cfg, disk, pc, running, reg, latest, out, att, attempts,
                   req, resp, ex, restartTasks, restartIssued, pingPc, pingResult, pings, lastPre>>

\* CancelledError is raised in ping_task at the await it is suspended in; it
\* is no Exception, so no handler catches it and the task ends.  A POST in
\* flight is dropped with its client.
PingCancelled ==
    /\ life = "cancelled"
    /\ running = NoOne
    /\ pingPc \in Suspended
    /\ pingPc' = "cancelled"
    /\ pings' = 0
    /\ UNCHANGED <<cfg, disk, pc, running, life, reg, latest, out, att,
                   attempts, req, resp, ex, restartTasks, restartIssued, pingResult,
                   lastPre>>

\* CancelledError is raised in auto_update_task at the await it is suspended
\* in: the interval sleep, the registry GET, an artifact GET or the close of
\* the download client.  A restart task created in the pass of the event
\* loop before is still in its 2 s sleep when the shutdown, which takes no
\* time from here, is over: it ends with the process.
UpdateCancelled ==
    /\ life \in {"cancelled", "ping_joined"}
    /\ running = NoOne
    /\ pc[Scheduled] \in Suspended
    /\ restartTasks' = IF Scheduled \in Returning
                       THEN restartTasks - 1 ELSE restartTasks
    /\ pc' = [pc EXCEPT ![Scheduled] = "cancelled"]
    /\ out' = [out EXCEPT ![Scheduled] = "none"]
    /\ reg' = [reg EXCEPT ![Scheduled] = NoReg]
    /\ latest' = [latest EXCEPT ![Scheduled] = None]
    /\ att' = [att EXCEPT ![Scheduled] = NoAtt]
    /\ UNCHANGED <<cfg, disk, running, life, attempts,
                   req, resp, ex, restartIssued, pingPc, pingResult, pings, lastPre>>

\* await ping_bg_task is over.
JoinPing ==
    /\ life = "cancelled"
    /\ running = NoOne
    /\ pingPc = "cancelled"
    /\ life' = "ping_joined"
    /\ UNCHANGED <<cfg, disk, pc, running, reg, latest, out, att, attempts,
                   req, resp, ex, restartTasks, restartIssued, pingPc, pingResult, pings, lastPre>>

\* Mutant: awaiting a task that returned before it was cancelled never ends.
Ended_cancelled_only ==
    {"cancelled"}

\* Positions at which a task is done, so that awaiting it ends: cancelled,
\* or returned before (auto_update_task with auto-update disabled).
Ended ==
    {"cancelled", "returned"}

\* await update_task is over: the lifespan ends and the process stops.
JoinUpdate ==
    /\ life = "ping_joined"
    /\ running = NoOne
    /\ pc[Scheduled] \in Ended
    /\ life' = "stopped"
    /\ UNCHANGED <<cfg, disk, pc, running, reg, latest, out, att, attempts,
                   req, resp, ex, restartTasks, restartIssued, pingPc, pingResult, pings, lastPre>>

\* ------------------------------------------------------ the specification

Next ==
    \/ SleepWake
    \/ \E c \in Updaters : CheckReturn(c)
    \/ \E c \in Updaters : EndCycle(c)
    \/ \E c \in Updaters : Download1Return(c)
    \/ \E c \in Updaters : Download2Return(c)
    \/ \E c \in Updaters, f \in Targets : Backup(c, f)
    \/ \E c \in Updaters, f \in Targets : Write(c, f)
    \/ \E c \in Updaters, f \in Targets : Chmod(c, f)
    \/ \E c \in Updaters : PipUpgrade(c)
    \/ \E c \in Updaters : ScheduleRestart(c)
    \/ \E c \in Updaters : AExitReturn(c)
    \/ \E c \in Updaters : RollbackScript(c)
    \/ \E c \in Updaters : RollbackMcp(c)
    \/ RestartFire
    \/ \E r \in Reqs : ReceiveUpdate(r)
    \/ \E r \in Reqs : ReceiveHealth(r)
    \/ \E r \in Reqs : ReceiveStatus(r)
    \/ \E r \in Reqs : ReceiveMetrics(r)
    \/ \E r \in Reqs : ReceiveExecute(r)
    \/ \E r \in Reqs : ChildDone(r)
    \/ PingWake
    \/ PingReturn
    \/ PingEnd
    \/ Shutdown
    \/ PingCancelled
    \/ UpdateCancelled
    \/ JoinPing
    \/ JoinUpdate

Spec ==
    Init /\ [][Next]_vars

\* The event loop resumes every task it has cancelled, and the lifespan
\* when the task it awaits has ended.
Fairness ==
    /\ WF_vars(PingCancelled)
    /\ WF_vars(UpdateCancelled)
    /\ WF_vars(JoinPing)
    /\ WF_vars(JoinUpdate)

LiveSpec ==
    Spec /\ Fairness

\* --------------------------------------------------------------- the claims

\* Positions inside download_and_replace_script.
AttemptPcs ==
    {"dl1", "dl2", "backup_script", "backup_mcp", "write_script", "write_mcp",
     "chmod_script", "chmod_mcp", "pip", "schedule", "aexit", "rb_script", "rb_mcp"}

InAttempt(c) ==
    pc[c] \in AttemptPcs

\* The attempt of c reported failure to its caller: it returned False or
\* raised.
ReportedFailure(c) ==
    att[c].res \in {"false", "raised"}

\* C1: at most one update attempt (one execution of
\* download_and_replace_script) is in progress at any time.
C1_OneAttemptAtATime ==
    Cardinality({c \in Updaters : InAttempt(c)}) <= 1

\* C2: when an artifact download of an attempt failed (non-200, timeout or
\* transport error), the attempt reports failure and, no step of its own
\* rollback having failed, every target file holds the content it held
\* before the attempt.
C2_DownloadFailureLeavesTargets ==
    \A c \in Updaters :
      (pc[c] = "end" /\ att[c].fail \in {"status", "error"})
        => /\ ReportedFailure(c)
           /\ att[c].res = "false"
                => \A f \in Targets : disk[f].c = att[c].pre[f]

\* C3: an attempt writes no target file and no backup path, and schedules no
\* restart, before both artifact downloads have returned status 200.
C3_NoWriteBeforeBothDownloads ==
    \A c \in Updaters :
      ((InAttempt(c) \/ pc[c] = "end") /\ att[c].ok < 2)
        => (att[c].wrote = {} /\ ~att[c].sched)

\* C4: when an attempt overwrites a target file, that file's current content
\* is in its backup path, and before the first target file is overwritten
\* every existing target file has been copied to its backup path.
C4_BackupBeforeOverwrite ==
    \A c \in Updaters :
      /\ pc[c] \in {"backup_script", "backup_mcp"} => att[c].repl = {}
      /\ \A f \in Targets :
           (pc[c] = WriteStep(f) /\ Exists(disk, f))
             => (f \in att[c].bk /\ disk[Bak(f)] = disk[f])
      /\ (pc[c] \in {WriteStep(f) : f \in Targets} /\ att[c].repl = {})
           => \A g \in Targets :
                Exists(disk, g) => (g \in att[c].bk /\ disk[Bak(g)] = disk[g])

\* Witness of C4: the script has been overwritten after both backups were
\* made, and the MCP server is about to be.
C4_Witness ==
    \E c \in Updaters :
      /\ pc[c] = WriteStep(MCP)
      /\ att[c].bk = Targets
      /\ disk[SCRIPT].c = Artifact(latest[c])
      /\ disk[Bak(SCRIPT)].c = CURRENT_VERSION

\* C5: when a backup or replacing step failed and rollback ran, every target
\* file the attempt backed up holds its pre-attempt content, every target
\* the replacing steps had not touched is unchanged, no restart is
\* scheduled and the attempt reports failure.
C5_RollbackRestores ==
    \A c \in Updaters :
      (pc[c] = "end" /\ att[c].fail \in {"backup", "write", "chmod"}
         /\ att[c].res = "false")
        => /\ \A f \in att[c].bk : disk[f].c = att[c].pre[f]
           /\ \A f \in Targets \ att[c].repl : disk[f].c = att[c].pre[f]
           /\ ~att[c].sched

\* C6: when the registry's latest tag, leading "v" stripped, equals
\* CURRENT_VERSION, the check yields no target version, POST /update is
\* answered up_to_date, and the cycle sends no artifact GET, writes no file
\* and schedules no restart.
C6_UpToDateTouchesNothing ==
    \A c \in Updaters :
      (pc[c] = "end" /\ reg[c].kind = "ok"
         /\ reg[c].tag \in {CURRENT_VERSION, <<"v">> \o CURRENT_VERSION})
        => /\ latest[c] = None
           /\ att[c].gets = 0
           /\ att[c].wrote = {}
           /\ ~att[c].sched
           /\ c \in Reqs => resp[c] = [code |-> 200, status |-> "up_to_date"]

\* Witness of C6: a POST /update whose check saw the tag "v0.1.7" is
\* answered.
C6_Witness ==
    \E r \in Reqs :
      /\ pc[r] = "end"
      /\ req[r].route = "update"
      /\ reg[r] = [kind |-> "ok", tag |-> <<"v">> \o CURRENT_VERSION]
      /\ resp[r].status = "up_to_date"

\* An authenticated POST /execute that has been handled or is running.
Executing(r) ==
    /\ req[r].route = "execute"
    /\ verify_token(req[r].tok)
    /\ pc[r] \in {"child", "end"}

\* C7: an /execute request whose command name, surrounding whitespace
\* stripped, is not in the allowlist (matched case-sensitively) is answered
\* 403, spawns no process, and no executable path is resolved for it.
C7_NotAllowedIs403 ==
    \A r \in Reqs :
      (Executing(r) /\ strip(req[r].command) \notin ALLOWED_COMMANDS)
        => /\ pc[r] = "end"
           /\ resp[r].code = 403
           /\ ex[r].spawned = 0
           /\ ex[r].child = "none"
           /\ ex[r].resolved = "no"

\* Witness of C7: "PS" has been rejected.
C7_Witness ==
    \E r \in Reqs :
      /\ Executing(r)
      /\ req[r].command = <<"P", "S">>
      /\ resp[r].code = 403

\* C8: an /execute request for an allowlisted command that shutil.which does
\* not find is answered 404 and spawns no process.
C8_MissingBinaryIs404 ==
    \A r \in Reqs :
      (Executing(r) /\ strip(req[r].command) \in ALLOWED_COMMANDS
         /\ ex[r].resolved = "missing")
        => /\ pc[r] = "end"
           /\ resp[r].code = 404
           /\ ex[r].spawned = 0
           /\ ex[r].child = "none"

\* Witness of C8: " ps\n" was not found on the search path.
C8_Witness ==
    \E r \in Reqs :
      /\ Executing(r)
      /\ req[r].command = <<" ", "p", "s", "\n">>
      /\ ex[r].resolved = "missing"
      /\ resp[r].code = 404

\* C9: a child that has not exited within COMMAND_TIMEOUT seconds is killed
\* and the request ends with 408, never with a command result.
C9_TimeoutIs408 ==
    \A r \in Reqs :
      (Executing(r) /\ pc[r] = "end" /\ ex[r].spawned = 1
         /\ ex[r].dur > COMMAND_TIMEOUT)
        => /\ ex[r].child = "killed"
           /\ resp[r].code = 408
           /\ resp[r].status # "result"

\* Witness of C9: a child that needs 31 s has been killed.
C9_Witness ==
    \E r \in Reqs :
      /\ Executing(r)
      /\ pc[r] = "end"
      /\ ex[r].dur = 31
      /\ ex[r].child = "killed"
      /\ resp[r].code = 408

\* C10: a failed iteration never ends a background loop.  Each loop is always
\* at a position of its loop body unless shutdown has cancelled it (or, for
\* the update loop, auto-update is disabled), and the end of every
\* iteration, failed or not, leads back to the interval sleep, from which
\* the next iteration can start.
C10_LoopsSurviveFailures ==
    /\ pingPc \in {"sleep", "post", "end", "cancelled"}
    /\ pingPc = "cancelled" => life # "serving"
    /\ pc[Scheduled] \in AttemptPcs \cup {"sleep", "check", "end", "cancelled", "returned"}
    /\ pc[Scheduled] = "cancelled" => life # "serving"
    /\ pc[Scheduled] = "returned" => ~cfg.enable_auto_update
    /\ (pingPc = "end" /\ pingResult \in {"false", "raised"})
         => (ENABLED PingEnd)
    /\ (pc[Scheduled] = "end" /\ ReportedFailure(Scheduled))
         => (ENABLED EndCycle(Scheduled))
    /\ (pingPc = "sleep" /\ life = "serving" /\ running = NoOne)
         => (ENABLED PingWake)
    /\ (pc[Scheduled] = "sleep" /\ life = "serving" /\ running = NoOne)
         => (ENABLED SleepWake)

\* Witness of C10: an update attempt of the scheduled loop has raised out of
\* its rollback, and the loop is about to sleep again.
C10_Witness ==
    /\ pc[Scheduled] = "end"
    /\ att[Scheduled].res = "raised"
    /\ life = "serving"

\* A heartbeat tick or a scheduled update check starts in this step.
LoopStarts ==
    \/ pingPc = "sleep" /\ pingPc' \notin {"sleep", "cancelled"}
    \/ pc[Scheduled] = "sleep" /\ pc'[Scheduled] \notin {"sleep", "cancelled"}

\* C11: once shutdown has cancelled the two background tasks it completes,
\* wherever the loops were (asleep, in a heartbeat POST, inside an update
\* cycle, or the update task already returned); it completes only when both
\* tasks have ended, and from the cancellation on no heartbeat tick and no
\* scheduled update check starts.
C11_ShutdownCompletes ==
    /\ [](life = "stopped"
            => (pingPc = "cancelled" /\ pc[Scheduled] \in {"cancelled", "returned"}))
    /\ [][life # "serving" => ~LoopStarts]_vars
    /\ (life = "cancelled") ~> (life = "stopped")

\* Witness of C11: the process has stopped after a shutdown that found the
\* update task already returned.
C11_Witness ==
    /\ life = "stopped"
    /\ pingPc = "cancelled"
    /\ pc[Scheduled] = "returned"

\* C12: the update loop observes the shutdown's cancellation only in its
\* interval sleep, never inside a cycle that has started.
C12_CancelOnlyAtSleep ==
    [][(pc[Scheduled] # "cancelled" /\ pc'[Scheduled] = "cancelled")
         => pc[Scheduled] = "sleep"]_vars

\* C13: at most one heartbeat POST is in flight, and none is while the loop
\* sleeps; the loop goes back to sleep only from the end of a tick, whose
\* outcome (reported, failed or raised) is then known.
C13_TicksSequential ==
    /\ pings <= 1
    /\ pingPc = "post" <=> pings = 1
    /\ pingPc = "sleep" => pingResult = "none"
    /\ pingPc = "end" => pingResult \in {"true", "false", "raised"}

\* Witness of C13: a tick has ended in failure, its POST answered, and the
\* loop has not yet gone back to sleep.
C13_Witness ==
    /\ pingPc = "end"
    /\ pingResult = "false"
    /\ pings = 0
    /\ life = "serving"

\* C14: ping_server returns True exactly on status 200, False on every other
\* outcome of the POST, and a tick never ends with an exception that left
\* ping_server.
C14_ReportNeverRaises ==
    /\ \A o \in PingOutcomes : (ping_server(o) = "true") <=> (o = "200")
    /\ pingPc = "end" => pingResult \in {"true", "false"}

\* The targets all hold the artifact of the version c updates to, executable.
Replaced(c) ==
    \A f \in Targets :
      /\ f \in att[c].repl
      /\ disk[f] = [c |-> Artifact(latest[c]), m |-> "rwxr-xr-x"]

\* C15: a restart task is created only by an attempt whose two downloads
\* succeeded and which replaced both target files; systemctl restart is run
\* only for an attempt that has returned True to its caller; an attempt
\* that failed and a cycle that found nothing to update have scheduled no
\* restart.
C15_RestartOnlyAfterSuccess ==
    /\ [](\A c \in Updaters :
            /\ (pc[c] = "end" /\ (ReportedFailure(c) \/ ~Truthy(latest[c])))
                 => ~att[c].sched
            /\ att[c].sched
                 => \/ pc[c] = "aexit" /\ out[c] = "true"
                    \/ pc[c] = "end" /\ att[c].res = "true")
    /\ [][/\ restartTasks' > restartTasks
             => \E c \in Updaters :
                  /\ pc[c] = "schedule"
                  /\ att[c].ok = 2
                  /\ att[c].fail = "none"
                  /\ Replaced(c)
          /\ (restartTasks' < restartTasks /\ pc' = pc)
             => /\ restartIssued'
                /\ restartTasks >
                     Cardinality({c \in Updaters : InAttempt(c) /\ att[c].sched})
         ]_vars

\* Witness of C15: one attempt has replaced both targets and returned, and
\* systemctl restart has been run for it.
C15_Witness ==
    /\ restartIssued
    /\ restartTasks = 0
    /\ attempts = 1
    /\ \A c \in Updaters : ~InAttempt(c) /\ pc[c] # "end"
    /\ \A f \in Targets :
         disk[f] = [c |-> Artifact(<<"0", ".", "1", ".", "8">>), m |-> "rwxr-xr-x"]

\* C16: a POST /update whose registry check finds the version that a
\* finished, successful attempt has just installed (its restart still
\* pending) starts no attempt and is answered up_to_date.
C16_UpToDateAfterUpdate ==
    \A r \in Reqs :
      ( /\ req[r].route = "update"
        /\ pc[r] \in {"dl1", "end"}
        /\ att[r].gets <= 1 /\ att[r].ok = 0 /\ att[r].fail = "none"
        /\ reg[r].kind = "ok"
        /\ restartTasks > 0
        /\ ~restartIssued
        /\ \A c \in Updaters \ {r} : ~InAttempt(c)
        /\ \A f \in Targets : disk[f].c = Artifact(lstrip(reg[r].tag, {"v"})) )
        => /\ pc[r] = "end"
           /\ att[r].gets = 0
           /\ resp[r] = [code |-> 200, status |-> "up_to_date"]

\* C17: a request to /status, /metrics, /execute or /update whose bearer
\* token is not the configured api_key is answered 401, spawns no process,
\* sends no registry check and starts no update attempt; /health is
\* answered 200 whatever token it carries, or none.
C17_WrongTokenIs401 ==
    \A r \in Reqs :
      /\ (req[r].route \in {"status", "metrics", "execute", "update"}
            /\ req[r].tok # API_KEY)
           => /\ pc[r] = "end"
              /\ resp[r] = Unauthorized
              /\ ex[r] = NoEx
              /\ reg[r] = NoReg
              /\ latest[r] = None
              /\ att[r] = NoAtt
      /\ req[r].route = "health" => (pc[r] = "end" /\ resp[r].code = 200)

\* Witness of C17: POST /update with a wrong token has been answered 401.
C17_Witness ==
    \E r \in Reqs :
      /\ req[r].route = "update"
      /\ req[r].tok = "wrong"
      /\ resp[r].code = 401

\* C18: no child the gateway has run changed the host.
C18_CommandsReadOnly ==
    \A r \in Reqs : ex[r].spawned = 1 => ex[r].effect = "none"

\* One target holds the new artifact, written by the scheduled loop's
\* attempt, and another does not.
HalfReplaced ==
    \E f, g \in Targets :
      /\ f \in att[Scheduled].repl
      /\ disk[f].c = Artifact(latest[Scheduled])
      /\ disk[g].c # Artifact(latest[Scheduled])

\* C19: when the update loop observes cancellation, its attempt in flight
\* has not left one target replaced and the other not.
C19_NoHalfReplacedOnCancel ==
    [][(pc[Scheduled] # "cancelled" /\ pc'[Scheduled] = "cancelled")
         => ~HalfReplaced]_vars

\* C20: while the child of an /execute request runs, the heartbeat loop and
\* the update loop can be resumed from the awaits they are suspended in.
C20_ChildWaitYields ==
    \A r \in Reqs :
      (pc[r] = "child" /\ life = "serving")
        => /\ pingPc = "sleep" => ENABLED PingWake
           /\ pingPc = "post" => ENABLED PingReturn
           /\ pc[Scheduled] = "sleep" => ENABLED SleepWake
           /\ pc[Scheduled] = "check" => ENABLED CheckReturn(Scheduled)

\* C21: a POST is sent only when the interval sleep ends, one per tick; a
\* tick that is over, failed or not, is followed by the sleep and by
\* nothing else, and a POST in flight is followed by its end.
C21_NoImmediateRetry ==
    [][/\ pings' > pings => (pingPc = "sleep" /\ pings' = pings + 1)
       /\ pingPc = "end" => pingPc' \in {"end", "sleep"}
       /\ pingPc = "post" => (pingPc' \in {"post", "end", "cancelled"}
                                /\ pings' <= pings)
      ]_vars

\* Witness of C21: a tick has failed, and all its loop can do is go to sleep.
C21_Witness ==
    /\ pingPc = "end"
    /\ pingResult = "false"
    /\ ENABLED PingEnd
    /\ ~ENABLED PingReturn
    /\ ~ENABLED PingWake

\* The registry check of c failed: non-200, timeout or transport error, or a
\* body without a usable tag_name.
CheckFailed(c) ==
    reg[c].kind \in {"status", "error", "malformed"}

\* C22: a cycle whose registry check failed ends with no target version, no
\* artifact GET, no file written and no restart scheduled, and the
\* scheduled loop goes on to its next interval sleep.
C22_FailedCheckNonFatal ==
    \A c \in Updaters :
      (pc[c] = "end" /\ CheckFailed(c))
        => /\ latest[c] = None
           /\ att[c] = NoAtt
           /\ c = Scheduled
                => (ENABLED EndCycle(c) /\ auto_update_task_next(att[c].res) = "sleep")

\* Witness of C22: the scheduled loop's check got a malformed body.
C22_Witness ==
    /\ pc[Scheduled] = "end"
    /\ reg[Scheduled].kind = "malformed"
    /\ life = "serving"

\* An authenticated POST /update that is answered.
UpdateAnswered(r) ==
    /\ req[r].route = "update"
    /\ req[r].tok = API_KEY
    /\ pc[r] = "end"

\* C23: POST /update is answered "updating" only when its attempt got both
\* artifacts, replaced both targets, scheduled the restart and returned
\* True; when the attempt failed the answer is a 500 error.
C23_UpdatingOnlyOnSuccess ==
    \A r \in Reqs :
      UpdateAnswered(r)
        => /\ resp[r].status = "updating"
                => /\ att[r].res = "true"
                   /\ att[r].ok = 2
                   /\ att[r].repl = Targets
                   /\ att[r].sched
           /\ ReportedFailure(r)
                => resp[r] = [code |-> 500, status |-> "error"]

\* Witness of C23: an attempt whose write failed was rolled back and the
\* request answered 500.
C23_Witness ==
    \E r \in Reqs :
      /\ UpdateAnswered(r)
      /\ att[r].fail = "write"
      /\ att[r].res = "false"
      /\ resp[r].code = 500

\* C24: with enable_auto_update false the update task has returned: it
\* sends no registry check and starts no attempt; the heartbeat loop still
\* wakes and POST /update is still served.
C24_DisabledLoopNeverChecks ==
    ~cfg.enable_auto_update
      => /\ pc[Scheduled] = "returned"
         /\ reg[Scheduled] = NoReg
         /\ latest[Scheduled] = None
         /\ att[Scheduled] = NoAtt
         /\ (life = "serving" /\ running = NoOne /\ pingPc = "sleep")
              => ENABLED PingWake
         /\ \A r \in Reqs :
              (life = "serving" /\ running = NoOne /\ pc[r] = "idle")
                => ENABLED ReceiveUpdate(r)

\* Witness of C24: auto-update is off and a POST /update has updated.
C24_Witness ==
    \E r \in Reqs :
      /\ ~cfg.enable_auto_update
      /\ UpdateAnswered(r)
      /\ resp[r].status = "updating"

\* C25: when the replacing steps are done, each target that existed holds
\* the new artifact and the permission bits it had before (those its backup
\* copy carries).
C25_PermissionBitsKept ==
    \A c \in Updaters :
      pc[c] = "pip"
        => \A f \in att[c].bk :
             /\ disk[f].c = Artifact(latest[c])
             /\ disk[f].m = disk[Bak(f)].m

\* C26: between update cycles, no write having left a truncated file, the
\* backup path of every target that a cycle has replaced holds the content
\* the target had before the last cycle that replaced it.
C26_BackupHoldsPreReplacement ==
    ( /\ \A c \in Updaters : ~InAttempt(c) /\ pc[c] # "end"
      /\ \A p \in Paths : disk[p].c # Partial )
      => \A f \in Targets :
           lastPre[f] # Never => disk[Bak(f)].c = lastPre[f]

\* C27: an /execute request that passed the checks has spawned one child,
\* with the stripped name followed by the request's args in order, and has
\* spawned no other when the child is over, however it ended.
C27_OneChildPerCall ==
    \A r \in Reqs :
      (Executing(r) /\ strip(req[r].command) \in ALLOWED_COMMANDS
         /\ ex[r].resolved = "found")
        => /\ ex[r].spawned = 1
           /\ ex[r].argv = <<strip(req[r].command)>> \o req[r].args
           /\ pc[r] = "end" => ex[r].child \in {"exited", "killed"}

\* Witness of C27: "ps -a -x" has run and failed the request with a 500.
C27_Witness ==
    \E r \in Reqs :
      /\ Executing(r)
      /\ pc[r] = "end"
      /\ ex[r].argv = << <<"p", "s">>, <<"-", "a">>, <<"-", "x">> >>
      /\ ex[r].spawned = 1
      /\ resp[r].code = 500

\* Positions of the filesystem phase, lines 283-331.
FsPcs ==
    {FsOrder[i] : i \in 1..Len(FsOrder)}

\* C28: while an attempt is between its first backup and the scheduling of
\* the restart it holds the event loop: no other attempt is in that phase,
\* and no heartbeat step, update step of another coroutine, request,
\* restart or shutdown step can be taken.
C28_WritePhaseAtomic ==
    \A c \in Updaters :
      pc[c] \in FsPcs
        => /\ running = c
           /\ \A d \in Updaters \ {c} :
                /\ pc[d] \notin FsPcs
                /\ ~ENABLED CheckReturn(d)
                /\ ~ENABLED Download1Return(d)
                /\ ~ENABLED Download2Return(d)
                /\ ~ENABLED AExitReturn(d)
           /\ ~ENABLED SleepWake
           /\ ~ENABLED PingWake
           /\ ~ENABLED PingReturn
           /\ ~ENABLED RestartFire
           /\ ~ENABLED Shutdown
           /\ ~ENABLED UpdateCancelled
           /\ ~ENABLED PingCancelled
           /\ \A r \in Reqs :
                /\ ~ENABLED ReceiveUpdate(r)
                /\ ~ENABLED ReceiveExecute(r)
                /\ ~ENABLED ReceiveStatus(r)
                /\ ~ENABLED ReceiveMetrics(r)
                /\ ~ENABLED ReceiveHealth(r)

\* Witness of C28: the request's attempt is writing mcp_server.py while the
\* scheduled loop's attempt waits for an artifact and a heartbeat POST is
\* in flight.
C28_Witness ==
    \E r \in Reqs :
      /\ pc[r] = "write_mcp"
      /\ pc[Scheduled] \in {"dl1", "dl2"}
      /\ pingPc = "post"

\* C29: an attempt whose pip exited non-zero goes on: no step has failed,
\* the targets are replaced when the restart is scheduled, no rollback
\* runs, and it returns True with the restart scheduled.
C29_PipFailureTolerated ==
    \A c \in Updaters :
      att[c].pip = "nonzero"
        => /\ att[c].fail = "none"
           /\ pc[c] \in {"schedule", "aexit", "end"}
           /\ pc[c] = "schedule" => Replaced(c)
           /\ pc[c] = "aexit" => (out[c] = "true" /\ att[c].sched)
           /\ pc[c] = "end" => (att[c].res = "true" /\ att[c].sched)

\* Witness of C29: an attempt whose pip exited non-zero has returned True.
C29_Witness ==
    \E c \in Updaters :
      /\ pc[c] = "end"
      /\ att[c].pip = "nonzero"
      /\ att[c].res = "true"

\* C30: a POST /update whose check yielded no target version, be it None
\* (up to date, or any failed check) or the empty string, is answered
\* up_to_date, and its cycle sent no artifact GET and wrote no file.
C30_NoVersionIsUpToDate ==
    \A r \in Reqs :
      /\ (UpdateAnswered(r) /\ reg[r] # NoReg /\ latest[r] \in {None, <<>>})
           => /\ resp[r] = [code |-> 200, status |-> "up_to_date"]
              /\ att[r] = NoAtt
      /\ (UpdateAnswered(r) /\ CheckFailed(r)) => latest[r] = None

\* Witness of C30: the registry was unreachable and POST /update is
\* answered up_to_date.
C30_Witness ==
    \E r \in Reqs :
      /\ UpdateAnswered(r)
      /\ reg[r].kind = "error"
      /\ resp[r].status = "up_to_date"

====
